---------------------------- MODULE Spec2Model ----------------------------
(***************************************************************************)
(* A model of alembic_rebase.py: the AlembicRebase class that rebases one  *)
(* branch of alembic migration scripts onto another.                       *)
(*                                                                         *)
(* Revision ids are strings.  A script directory (alembic's                *)
(* ScriptDirectory revision map) is a function from the ids that have a    *)
(* script to records [revision, down_revision]; down_revision is a         *)
(* sequence: <<>> is Python's None, <<p>> a single parent id, a longer     *)
(* sequence the tuple of parents of a merge point.                         *)
(***************************************************************************)
EXTENDS Integers, Sequences, FiniteSets, TLC

VARIABLES
    scriptDir,      \* self.script_dir: the revision map the object works on
    files,          \* the script files on disk: path -> text
    result,         \* the last direct call of an operation and what it returned
    getHeadsRaises, \* whether script_dir.get_heads() raises
    pc,             \* where the rebase run is
    error,          \* the error a failed run ended with
    heads,          \* the arguments of the run: base_head and top_head
    plan,           \* common_ancestor, migrations_to_rebase, top_chain, last_top_migration
    index,          \* the loop index of the rewriting and of the applying loop
    calls,          \* the Migration Engine calls made so far
    dbHeads,        \* the heads the store records as applied
    files0,         \* the script files as they were before the run
    config          \* self.config of the object: None until the configuration is loaded

\* Number of revision ids in the histories explored.
NumRevs == 4

Rev(i) == "r" \o ToString(i)

Revs == {Rev(i) : i \in 1..NumRevs}

\* A revision id that never has a script.
NoSuchRev == "nonexistent"

\* Python's None, where a revision id or nothing is returned.
None == "<None>"

Reverse(s) == [i \in 1..Len(s) |-> s[Len(s) + 1 - i]]

SeqToSet(s) == {s[i] : i \in 1..Len(s)}

-----------------------------------------------------------------------------
(* script_dir.get_revision: the script of an id.  For an id without a     *)
(* script the library raises (alembic's ScriptDirectory) or returns None  *)
(* (the test doubles, revisions.get(rev_id)); `strict` says which.        *)

HasScript(sd, revision) == revision \in DOMAIN sd

\* A walk that follows the last recorded parent of a merge point.
LastParent(sd, revision) ==
    IF sd[revision].down_revision = <<>> THEN None
    ELSE sd[revision].down_revision[Len(sd[revision].down_revision)]

\* script.down_revision followed by _get_migration_chain: the first
\* recorded parent of a merge point, the parent otherwise, None for a root.
FirstParent(sd, revision) ==
    IF sd[revision].down_revision = <<>> THEN None
    ELSE sd[revision].down_revision[1]

\* The recorded parents of a revision.
ParentsOf(sd, r) == IF HasScript(sd, r) THEN SeqToSet(sd[r].down_revision) ELSE {}

\* The revisions reachable from those of S over recorded parent links, in
\* at most n further steps.
RECURSIVE AncestorsWithin(_, _, _)
AncestorsWithin(sd, S, n) ==
    IF n = 0 THEN S
    ELSE AncestorsWithin(sd, S \cup UNION {ParentsOf(sd, r) : r \in S}, n - 1)

\* Every revision that r reaches over one parent link or more.
ProperAncestors(sd, r) == AncestorsWithin(sd, ParentsOf(sd, r), Cardinality(DOMAIN sd))

\* Whether the parent links of the revision map close a cycle.  alembic
\* refuses such a map: every lookup raises CycleDetected.
HasCycle(sd) == \E r \in DOMAIN sd : r \in ProperAncestors(sd, r)

(* The while loop of _get_migration_chain.  `chain` is the list built so  *)
(* far (newest first) and `cur` the id get_revision is asked for next.    *)
(* The code keeps no visited set: when the walk comes back to an id       *)
(* already in the chain it never ends, which the result "loop" records.   *)
RECURSIVE ChainWalk(_, _, _, _)
ChainWalk(sd, strict, cur, chain) ==
    IF ~HasScript(sd, cur)
    THEN IF strict THEN [kind |-> "raise", chain |-> <<>>]
         ELSE [kind |-> "ok", chain |-> Reverse(chain)]
    ELSE IF sd[cur].revision \in SeqToSet(chain)
    THEN [kind |-> "loop", chain |-> <<>>]
    ELSE LET chain2 == Append(chain, sd[cur].revision)
         IN IF sd[cur].down_revision # <<>>
            THEN ChainWalk(sd, strict, FirstParent(sd, cur), chain2)
            ELSE [kind |-> "ok", chain |-> Reverse(chain2)]

\* The same walk, returning the list without reversing it.
GetMigrationChainUnreversed(sd, strict, revision) ==
    LET r == ChainWalk(sd, strict, revision, <<>>)
    IN IF strict /\ HasCycle(sd) THEN [kind |-> "raise", chain |-> <<>>]
       ELSE [kind |-> r.kind, chain |-> Reverse(r.chain)]

(* AlembicRebase._get_migration_chain.  alembic's script directory       *)
(* raises at the first lookup when the map has a cycle; a double that     *)
(* serves get_revision from a dictionary does not, and the walk goes on.  *)
GetMigrationChain(sd, strict, revision) ==
    IF strict /\ HasCycle(sd) THEN [kind |-> "raise", chain |-> <<>>]
    ELSE ChainWalk(sd, strict, revision, <<>>)

\* A scan of base_chain that returns its first element without looking it
\* up in top_chain.
AncestorScanNoMembership(top_chain, base_chain, i) ==
    IF i > Len(base_chain) THEN None ELSE base_chain[i]

\* A scan that returns a revision of the chain of top_head without looking
\* at the chain of base_head.
AncestorScanTopOnly(top_chain, base_chain, i) ==
    IF top_chain = {} THEN None ELSE CHOOSE revision \in top_chain : TRUE

\* The for loop of _find_common_ancestor over base_chain, from index i.
RECURSIVE AncestorScan(_, _, _)
AncestorScan(top_chain, base_chain, i) ==
    IF i > Len(base_chain) THEN None
    ELSE IF base_chain[i] \in top_chain THEN base_chain[i]
    ELSE AncestorScan(top_chain, base_chain, i + 1)

\* AlembicRebase._find_common_ancestor
FindCommonAncestor(sd, strict, top_head, base_head) ==
    LET top == GetMigrationChain(sd, strict, top_head)
        base == GetMigrationChain(sd, strict, base_head)
    IN IF top.kind # "ok" THEN [kind |-> top.kind, value |-> None]
       ELSE IF base.kind # "ok" THEN [kind |-> base.kind, value |-> None]
       ELSE [kind |-> "ok", value |-> AncestorScan(SeqToSet(top.chain), base.chain, 1)]

-----------------------------------------------------------------------------
(* Script files.  The text of a file is a sequence of tokens: the words    *)
(* "revision", "down_revision", "None" and "=", a blank, a line break, the *)
(* two quote characters, a revision id, or any other piece of text that    *)
(* holds no quote, blank or line break.  The regular expressions of the    *)
(* code are matched on the tokens as re matches them on the characters.    *)

SQ == "'"
DQ == "\""
NL == "\n"
SP == " "

Quotes == {SQ, DQ}

\* What \s matches.
Whitespace == {SP, NL}

\* The token at position i, "" past the end of the text.
TokenAt(content, i) == IF i >= 1 /\ i <= Len(content) THEN content[i] ELSE ""

\* Where ^ matches under re.MULTILINE.
AtLineStart(content, i) == i = 1 \/ TokenAt(content, i - 1) = NL

\* \s* from position i: the position after the blanks and line breaks.
RECURSIVE SkipWhitespace(_, _)
SkipWhitespace(content, i) ==
    IF TokenAt(content, i) \in Whitespace THEN SkipWhitespace(content, i + 1) ELSE i

\* [^'"]* from position i followed by ['"]: the position of the first quote
\* at or after i, 0 when there is none.
RECURSIVE NextQuote(_, _)
NextQuote(content, i) ==
    IF i > Len(content) THEN 0
    ELSE IF content[i] \in Quotes THEN i
    ELSE NextQuote(content, i + 1)

\* The text of a sequence of tokens as one string.
RECURSIVE Concat(_)
Concat(tokens) ==
    IF tokens = <<>> THEN "" ELSE Head(tokens) \o Concat(Tail(tokens))

NoMatch == [matched |-> FALSE, last |-> 0, isNone |-> FALSE, group |-> ""]

\* r"^revision\s*=\s*['\"]([^'\"]+)['\"]" at position i: whether it matches,
\* the position of the last token matched and the text of the group.
MatchRevision(content, i) ==
    IF ~(AtLineStart(content, i) /\ TokenAt(content, i) = "revision") THEN NoMatch
    ELSE LET eq == SkipWhitespace(content, i + 1)
             open == SkipWhitespace(content, eq + 1)
             close == NextQuote(content, open + 1)
         IN IF /\ TokenAt(content, eq) = "="
               /\ TokenAt(content, open) \in Quotes
               /\ close > open + 1
            THEN [matched |-> TRUE, last |-> close, isNone |-> FALSE,
                  group |-> Concat(SubSeq(content, open + 1, close - 1))]
            ELSE NoMatch

\* r"^down_revision\s*=\s*(['\"]([^'\"]*)['\"]|None)" at position i; isNone
\* says that group 1 is the word None, group is the text of group 2.
MatchDownRevision(content, i) ==
    IF ~(AtLineStart(content, i) /\ TokenAt(content, i) = "down_revision") THEN NoMatch
    ELSE LET eq == SkipWhitespace(content, i + 1)
             open == SkipWhitespace(content, eq + 1)
             close == NextQuote(content, open + 1)
         IN IF TokenAt(content, eq) # "=" THEN NoMatch
            ELSE IF TokenAt(content, open) \in Quotes /\ close > open
            THEN [matched |-> TRUE, last |-> close, isNone |-> FALSE,
                  group |-> Concat(SubSeq(content, open + 1, close - 1))]
            ELSE IF TokenAt(content, open) = "None"
            THEN [matched |-> TRUE, last |-> open, isNone |-> TRUE, group |-> ""]
            ELSE NoMatch

\* The two patterns of the file operations, and a match of one of them
\* at position i.
RevisionPattern == "revision"
DownRevisionPattern == "down_revision"

Match(pattern, content, i) ==
    IF pattern = RevisionPattern THEN MatchRevision(content, i)
    ELSE MatchDownRevision(content, i)

\* re.search(pattern, content, re.MULTILINE): the first match from position i.
RECURSIVE Search(_, _, _)
Search(pattern, content, i) ==
    IF i > Len(content) THEN NoMatch
    ELSE LET m == Match(pattern, content, i)
         IN IF m.matched THEN m ELSE Search(pattern, content, i + 1)

\* re.sub(pattern, repl, content, flags=re.MULTILINE): every match, left to
\* right and not overlapping, replaced by repl.
RECURSIVE Sub(_, _, _, _)
Sub(pattern, repl, content, i) ==
    IF i > Len(content) THEN <<>>
    ELSE LET m == Match(pattern, content, i)
         IN IF m.matched THEN repl \o Sub(pattern, repl, content, m.last + 1)
            ELSE <<content[i]>> \o Sub(pattern, repl, content, i + 1)

\* AlembicRebase._parse_migration_file: the revision and the down_revision
\* (None when the line is absent or says None) read from the text, or the
\* AlembicRebaseError "Could not find revision".
ParseMigrationFile(content) ==
    LET revision_match == Search(RevisionPattern, content, 1)
        down_revision_match == Search(DownRevisionPattern, content, 1)
    IN IF ~revision_match.matched
       THEN [kind |-> "raise", revision |-> None, down_revision |-> None]
       ELSE [kind |-> "ok",
             revision |-> revision_match.group,
             down_revision |->
                 IF down_revision_match.matched /\ ~down_revision_match.isNone
                 THEN down_revision_match.group
                 ELSE None]

\* Python's truth value of new_down_revision: None and "" are false.
Truthy(value) == value # None /\ value # ""

RevisionLine(revision) == <<"revision", SP, "=", SP, SQ, revision, SQ>>

DownRevisionLine(down_revision) ==
    IF Truthy(down_revision)
    THEN <<"down_revision", SP, "=", SP, SQ, down_revision, SQ>>
    ELSE <<"down_revision", SP, "=", SP, "None">>

\* An update that writes the new parent into the revision line as well.
UpdateMigrationFileSwapped(content, old_revision, new_revision, new_down_revision) ==
    LET content1 == Sub(RevisionPattern, RevisionLine(new_down_revision), content, 1)
    IN Sub(DownRevisionPattern, DownRevisionLine(new_down_revision), content1, 1)

\* An update that appends a parent-link line instead of replacing the one
\* the file has.
UpdateMigrationFileAppend(content, old_revision, new_revision, new_down_revision) ==
    LET content1 == Sub(RevisionPattern, RevisionLine(new_revision), content, 1)
    IN content1 \o DownRevisionLine(new_down_revision) \o <<NL>>

\* An update that rewrites the revision line and leaves the parent link.
UpdateMigrationFileRevisionOnly(content, old_revision, new_revision, new_down_revision) ==
    Sub(RevisionPattern, RevisionLine(new_revision), content, 1)

\* AlembicRebase._update_migration_file: the text written back to the file.
UpdateMigrationFile(content, old_revision, new_revision, new_down_revision) ==
    LET content1 == Sub(RevisionPattern, RevisionLine(new_revision), content, 1)
    IN Sub(DownRevisionPattern, DownRevisionLine(new_down_revision), content1, 1)

-----------------------------------------------------------------------------
(* How script files are written.  A script is a message line, the          *)
(* revision line, the down_revision line and the two operation bodies.     *)
(* The styles are those of the file templates: single quotes and blanks    *)
(* around "=" (the tests' files), double quotes and no blanks, the type    *)
(* annotations of alembic's current template, and a trailing comment.      *)
(* The down_revision of a merge point is a tuple.                          *)

Styles == {"single", "double", "annotated", "comment"}

Quoted(q, text) == <<q, text, q>>

\* The Python expression of a down_revision value.
DownRevisionExpr(q, down_revision) ==
    IF down_revision = <<>> THEN <<"None">>
    ELSE IF Len(down_revision) = 1 THEN Quoted(q, down_revision[1])
    ELSE <<"(">> \o Quoted(q, down_revision[1]) \o <<",", SP>>
         \o Quoted(q, down_revision[2]) \o <<")">>

Assignment(name, style, expr) ==
    IF style = "single" THEN <<name, SP, "=", SP>> \o expr
    ELSE IF style = "double" THEN <<name, "=">> \o expr
    ELSE IF style = "annotated" THEN <<name, ":", SP, "str", SP, "=", SP>> \o expr
    ELSE <<name, SP, SP, "=", SP>> \o expr \o <<SP, SP, "#", "note">>

Body == <<"def upgrade()", NL, "def downgrade()", NL>>

RenderScript(revision, down_revision, style) ==
    LET q == IF style = "double" THEN DQ ELSE SQ
    IN <<"#", "message", NL>>
       \o Assignment("revision", style, Quoted(q, revision)) \o <<NL>>
       \o Assignment("down_revision", style, DownRevisionExpr(q, down_revision)) \o <<NL>>
       \o Body

(* What alembic reads from a script when it loads the script directory:   *)
(* the values the module assigns to revision and down_revision.           *)

\* The position of the first line at or after i that starts with `name`, 0
\* when there is none.
RECURSIVE FindAssignment(_, _, _)
FindAssignment(content, name, i) ==
    IF i > Len(content) THEN 0
    ELSE IF AtLineStart(content, i) /\ content[i] = name THEN i
    ELSE FindAssignment(content, name, i + 1)

\* The position of the first "=" at or after i on the same line, 0 if none.
RECURSIVE FindEquals(_, _)
FindEquals(content, i) ==
    IF i > Len(content) \/ content[i] = NL THEN 0
    ELSE IF content[i] = "=" THEN i
    ELSE FindEquals(content, i + 1)

\* The value of the expression assigned to `name`: <<>> for None, the
\* strings of a string or a tuple of two strings.
ModuleAttr(content, name) ==
    LET at == FindAssignment(content, name, 1)
        eq == IF at = 0 THEN 0 ELSE FindEquals(content, at + 1)
        v == SkipWhitespace(content, eq + 1)
    IN IF at = 0 \/ eq = 0 THEN <<>>
       ELSE IF TokenAt(content, v) \in Quotes THEN <<TokenAt(content, v + 1)>>
       ELSE IF TokenAt(content, v) = "("
       THEN <<TokenAt(content, v + 2), TokenAt(content, v + 7)>>
       ELSE <<>>

\* The entries of the revision map for the scripts at `paths`.
RECURSIVE LoadScripts(_, _)
LoadScripts(disk, paths) ==
    IF paths = {} THEN <<>>
    ELSE LET path == CHOOSE f \in paths : TRUE
             revision == ModuleAttr(disk[path], "revision")
             rest == LoadScripts(disk, paths \ {path})
         IN IF revision = <<>> THEN rest
            ELSE (revision[1] :> [revision |-> revision[1],
                                  down_revision |-> ModuleAttr(disk[path], "down_revision"),
                                  path |-> path]) @@ rest

\* ScriptDirectory.from_config: the revision map of the files on disk, one
\* entry per script under the revision id its module assigns.
LoadScriptDirectory(disk) == LoadScripts(disk, DOMAIN disk)

-----------------------------------------------------------------------------
(* The operations of a rebase run.                                         *)

\* script_dir.get_heads(): the revisions no script names as a parent.
GetHeads(sd) == {r \in DOMAIN sd : \A c \in DOMAIN sd : r \notin ParentsOf(sd, c)}

\* AlembicRebase._get_current_heads_from_files: [] when get_heads() raises.
GetCurrentHeadsFromFiles(sd, raises) == IF raises THEN {} ELSE GetHeads(sd)

\* AlembicRebase._find_migration_file: the path of the script of a
\* revision, None when the revision has none (or the lookup raises).
FindMigrationFile(sd, revision) ==
    IF HasScript(sd, revision) THEN sd[revision].path ELSE None

\* A validation that looks for current heads before anything else.
ValidateRevisionsHeadsFirst(sd, strict, raises, top_head, base_head) ==
    LET current_heads == GetCurrentHeadsFromFiles(sd, raises)
    IN IF current_heads = {} THEN "no_current_heads"
       ELSE IF top_head = base_head THEN "same_head"
       ELSE IF FindMigrationFile(sd, top_head) = None THEN "top_head_does_not_exist"
       ELSE IF FindMigrationFile(sd, base_head) = None THEN "base_head_does_not_exist"
       ELSE "ok"

\* A validation that lets only current heads pass as arguments.
ValidateRevisionsHeadsOnly(sd, strict, raises, top_head, base_head) ==
    LET current_heads == GetCurrentHeadsFromFiles(sd, raises)
    IN IF top_head = base_head THEN "same_head"
       ELSE IF FindMigrationFile(sd, top_head) = None THEN "top_head_does_not_exist"
       ELSE IF FindMigrationFile(sd, base_head) = None THEN "base_head_does_not_exist"
       ELSE IF current_heads = {} THEN "no_current_heads"
       ELSE IF {top_head, base_head} \subseteq current_heads THEN "ok"
       ELSE "not_reachable"

(* AlembicRebase._validate_revisions: "ok", or the error it raises.  The  *)
(* chains are computed only once the first four checks have passed; a     *)
(* chain that raises or never ends makes the validation do the same.      *)
ValidateRevisions(sd, strict, raises, top_head, base_head) ==
    LET current_heads == GetCurrentHeadsFromFiles(sd, raises)
        top == GetMigrationChain(sd, strict, top_head)
        base == GetMigrationChain(sd, strict, base_head)
        ofHeads == {GetMigrationChain(sd, strict, head) : head \in current_heads}
        kinds == {top.kind, base.kind} \cup {c.kind : c \in ofHeads}
        top_chain == SeqToSet(top.chain)
        base_chain == SeqToSet(base.chain)
        current_head_chains == UNION {SeqToSet(c.chain) : c \in ofHeads}
        top_reachable ==
            \/ top_head \in current_head_chains
            \/ \E head \in current_heads : head \in top_chain
        base_reachable ==
            \/ base_head \in current_head_chains
            \/ \E head \in current_heads : head \in base_chain
    IN IF top_head = base_head THEN "same_head"
       ELSE IF FindMigrationFile(sd, top_head) = None THEN "top_head_does_not_exist"
       ELSE IF FindMigrationFile(sd, base_head) = None THEN "base_head_does_not_exist"
       ELSE IF current_heads = {} THEN "no_current_heads"
       ELSE IF top.kind # "ok" THEN top.kind
       ELSE IF base.kind # "ok" THEN base.kind
       ELSE IF "loop" \in kinds THEN "loop"
       ELSE IF "raise" \in kinds THEN "raise"
       ELSE IF ~top_reachable /\ ~base_reachable THEN "not_reachable"
       ELSE "ok"

\* The errors of _validate_revisions.
ValidationErrors ==
    {"same_head", "top_head_does_not_exist", "base_head_does_not_exist",
     "no_current_heads", "not_reachable"}

\* The loop of rebase that looks for common_ancestor in base_chain: the
\* index of its first occurrence, 0 (None) when it does not occur.
RECURSIVE CommonIndex(_, _, _)
CommonIndex(base_chain, common_ancestor, i) ==
    IF i > Len(base_chain) THEN 0
    ELSE IF base_chain[i] = common_ancestor THEN i
    ELSE CommonIndex(base_chain, common_ancestor, i + 1)

NoPlan ==
    [common_ancestor |-> None, migrations_to_rebase |-> <<>>, top_chain |-> <<>>,
     last_top_migration |-> None]

\* A chain analysis that goes on without a common ancestor: the whole base
\* chain is to be rebased.
ChainAnalysisWithoutAncestorCheck(sd, strict, top_head, base_head) ==
    LET found == FindCommonAncestor(sd, strict, top_head, base_head)
        base_chain == GetMigrationChain(sd, strict, base_head).chain
        top_chain == GetMigrationChain(sd, strict, top_head).chain
        common_index == CommonIndex(base_chain, found.value, 1)
    IN IF found.kind # "ok" THEN [outcome |-> found.kind, plan |-> NoPlan]
       ELSE [outcome |-> "ok",
             plan |-> [common_ancestor |-> found.value,
                       migrations_to_rebase |->
                           SubSeq(base_chain, common_index + 1, Len(base_chain)),
                       top_chain |-> top_chain,
                       last_top_migration |-> None]]

\* A chain analysis that takes the base chain from the common ancestor on,
\* the ancestor included.
ChainAnalysisFromAncestor(sd, strict, top_head, base_head) ==
    LET found == FindCommonAncestor(sd, strict, top_head, base_head)
        common_ancestor == found.value
        base_chain == GetMigrationChain(sd, strict, base_head).chain
        top_chain == GetMigrationChain(sd, strict, top_head).chain
        common_index == CommonIndex(base_chain, common_ancestor, 1)
    IN IF found.kind # "ok" THEN [outcome |-> found.kind, plan |-> NoPlan]
       ELSE IF common_ancestor = None
       THEN [outcome |-> "no_common_ancestor", plan |-> NoPlan]
       ELSE IF common_index = 0
       THEN [outcome |-> "ancestor_not_in_base_chain", plan |-> NoPlan]
       ELSE [outcome |-> "ok",
             plan |-> [common_ancestor |-> common_ancestor,
                       migrations_to_rebase |->
                           SubSeq(base_chain, common_index, Len(base_chain)),
                       top_chain |-> top_chain,
                       last_top_migration |-> None]]

(* The chain analysis of rebase, from _find_common_ancestor to            *)
(* migrations_to_rebase: the error it raises, or "ok" and the plan.       *)
ChainAnalysis(sd, strict, top_head, base_head) ==
    LET found == FindCommonAncestor(sd, strict, top_head, base_head)
        common_ancestor == found.value
        base_chain == GetMigrationChain(sd, strict, base_head).chain
        top_chain == GetMigrationChain(sd, strict, top_head).chain
        common_index == CommonIndex(base_chain, common_ancestor, 1)
    IN IF found.kind # "ok" THEN [outcome |-> found.kind, plan |-> NoPlan]
       ELSE IF common_ancestor = None
       THEN [outcome |-> "no_common_ancestor", plan |-> NoPlan]
       ELSE IF common_index = 0
       THEN [outcome |-> "ancestor_not_in_base_chain", plan |-> NoPlan]
       ELSE [outcome |-> "ok",
             plan |-> [common_ancestor |-> common_ancestor,
                       migrations_to_rebase |->
                           SubSeq(base_chain, common_index + 1, Len(base_chain)),
                       top_chain |-> top_chain,
                       last_top_migration |-> None]]

\* top_chain_after_ancestor of rebase.
TopChainAfterAncestor(top_chain, common_ancestor) ==
    LET keep(rev) == rev # common_ancestor
    IN SelectSeq(top_chain, keep)

\* A rewrite that leaves the first migration on the common ancestor.
NewDownRevisionKeepFirst(migrations_to_rebase, last_top_migration, i) ==
    IF i = 1 THEN plan.common_ancestor ELSE migrations_to_rebase[i - 1]

\* The new parent _rewrite_migration_files gives the i-th migration.
NewDownRevision(migrations_to_rebase, last_top_migration, i) ==
    IF i = 1 THEN last_top_migration ELSE migrations_to_rebase[i - 1]

\* The text split at its line breaks.
RECURSIVE Lines(_)
Lines(content) ==
    IF content = <<>> THEN <<>>
    ELSE LET nl == CHOOSE i \in 1..(Len(content) + 1) :
                       /\ i = Len(content) + 1 \/ content[i] = NL
                       /\ \A j \in 1..(i - 1) : content[j] # NL
         IN <<SubSeq(content, 1, nl - 1)>>
            \o Lines(SubSeq(content, nl + 1, Len(content)))

\* Whether the quotes of one line pair up: each opened quote is closed by
\* the same character on the line.
RECURSIVE QuotesBalanced(_, _)
QuotesBalanced(line, open) ==
    IF line = <<>> THEN open = ""
    ELSE IF Head(line) \notin Quotes THEN QuotesBalanced(Tail(line), open)
    ELSE IF open = "" THEN QuotesBalanced(Tail(line), Head(line))
    ELSE IF Head(line) = open THEN QuotesBalanced(Tail(line), "")
    ELSE QuotesBalanced(Tail(line), open)

\* compile(content, path, "exec"): the text is Python when the string
\* literals of every line are closed; the other tokens stand for valid code.
CompileOk(content) ==
    \A k \in 1..Len(Lines(content)) : QuotesBalanced(Lines(content)[k], "")

\* AlembicRebase._validate_migration_file_integrity
ValidateMigrationFileIntegrity(sd, disk, revision) ==
    LET file_path == FindMigrationFile(sd, revision)
    IN IF file_path = None THEN FALSE
       ELSE LET content == disk[file_path]
            IN /\ Search(RevisionPattern, content, 1).matched
               /\ Search(DownRevisionPattern, content, 1).matched
               /\ "def upgrade()" \in SeqToSet(content)
               /\ "def downgrade()" \in SeqToSet(content)
               /\ CompileOk(content)

\* A linkage check that accepts every sequence.
ValidateMigrationChainIntegrityNoCompare(sd, disk, migrations, i) == "true"

(* AlembicRebase._validate_migration_chain_integrity from index i: TRUE,  *)
(* FALSE, or "raise" when _parse_migration_file raises.  The parent of    *)
(* the first migration is not compared with anything.                     *)
RECURSIVE ValidateMigrationChainIntegrity(_, _, _, _)
ValidateMigrationChainIntegrity(sd, disk, migrations, i) ==
    IF i > Len(migrations) THEN "true"
    ELSE LET file_path == FindMigrationFile(sd, migrations[i])
         IN IF file_path = None THEN "false"
            ELSE LET parsed == ParseMigrationFile(disk[file_path])
                 IN IF parsed.kind = "raise" THEN "raise"
                    ELSE IF i > 1 /\ parsed.down_revision # migrations[i - 1] THEN "false"
                    ELSE ValidateMigrationChainIntegrity(sd, disk, migrations, i + 1)

\* The integrity validation of rebase after the rewrite: "ok" or the error.
IntegrityValidation(sd, disk, migrations) ==
    IF \E k \in 1..Len(migrations) :
           ~ValidateMigrationFileIntegrity(sd, disk, migrations[k])
    THEN "file_integrity"
    ELSE LET chain_ok == ValidateMigrationChainIntegrity(sd, disk, migrations, 1)
         IN IF chain_ok = "true" THEN "ok"
            ELSE IF chain_ok = "raise" THEN "raise"
            ELSE "chain_integrity"

-----------------------------------------------------------------------------
(* The histories explored.  A forest over Rev(1)..Rev(NumRevs) in which   *)
(* the parent of Rev(i) is an earlier revision or absent, optionally      *)
(* with one irregularity: a script that is missing while its children     *)
(* still name it, a second parent (a merge point), or a parent link       *)
(* redirected to the revision itself or a later one (possibly a cycle).   *)

Forests == {par \in [1..NumRevs -> 0..(NumRevs - 1)] : \A i \in 1..NumRevs : par[i] < i}

Irregularities ==
    {[kind |-> "none", at |-> 0, to |-> 0]}
    \cup {[kind |-> "missing", at |-> i, to |-> 0] : i \in 1..NumRevs}
    \cup {[kind |-> k, at |-> i, to |-> j] :
            k \in {"merge", "redirect"}, i \in 1..NumRevs, j \in 1..NumRevs}

DownRevisionOf(par, irr, i) ==
    IF irr.kind = "redirect" /\ irr.at = i THEN <<Rev(irr.to)>>
    ELSE IF par[i] = 0 THEN <<>>
    ELSE IF irr.kind = "merge" /\ irr.at = i /\ irr.to # par[i] /\ irr.to # i
         THEN <<Rev(par[i]), Rev(irr.to)>>
    ELSE <<Rev(par[i])>>

BuildScriptDir(par, irr) ==
    LET present == {i \in 1..NumRevs : ~(irr.kind = "missing" /\ irr.at = i)}
        idx(r) == CHOOSE i \in present : Rev(i) = r
    IN [r \in {Rev(i) : i \in present} |->
            [revision |-> r, down_revision |-> DownRevisionOf(par, irr, idx(r)),
             path |-> r]]

Histories == {BuildScriptDir(par, irr) : par \in Forests, irr \in Irregularities}

NoResult == [op |-> "none"]

NoError == [phase |-> "", kind |-> ""]

NoHeads == [base_head |-> None, top_head |-> None]

vars ==
    <<scriptDir, files, result, getHeadsRaises, pc, error, heads, plan, index,
      calls, dbHeads, files0, config>>

\* The variables of a rebase run.
runVars == <<getHeadsRaises, pc, error, heads, plan, index, calls, dbHeads, files0, config>>

\* No rebase run is under way.
NoRun ==
    /\ getHeadsRaises = FALSE
    /\ pc = "Start"
    /\ error = NoError
    /\ heads = NoHeads
    /\ plan = NoPlan
    /\ index = 0
    /\ calls = <<>>
    /\ dbHeads = {}
    /\ files0 = <<>>
    /\ config = None

-----------------------------------------------------------------------------
(* Direct calls of the chain operations on a given revision map, as the    *)
(* tests make them with a ScriptDirectory double.                          *)

InitChain ==
    /\ scriptDir \in Histories
    /\ files = <<>>
    /\ result = NoResult
    /\ NoRun

\* A direct call of _get_migration_chain(revision).  The chain operations
\* read the object and change nothing, so what a call returns does not
\* depend on the calls before it: a behaviour makes one.
CallGetMigrationChain ==
    \E revision \in Revs, strict \in BOOLEAN :
        /\ result = NoResult
        /\ result' = [op |-> "chain", revision |-> revision, strict |-> strict,
                      out |-> GetMigrationChain(scriptDir, strict, revision)]
        /\ UNCHANGED <<scriptDir, files, runVars>>

\* Direct calls of _find_common_ancestor with the two heads in both orders.
CallFindCommonAncestor ==
    \E a \in Revs, b \in Revs, strict \in BOOLEAN :
        /\ result = NoResult
        /\ result' = [op |-> "ancestor", a |-> a, b |-> b, strict |-> strict,
                      out |-> FindCommonAncestor(scriptDir, strict, a, b),
                      swapped |-> FindCommonAncestor(scriptDir, strict, b, a)]
        /\ UNCHANGED <<scriptDir, files, runVars>>

NextChain == CallGetMigrationChain \/ CallFindCommonAncestor

SpecChain == InitChain /\ [][NextChain]_vars

-----------------------------------------------------------------------------
(* Direct calls of the file operations on one script file.                 *)

\* The revision id of the script the file operations are called on, and
\* the parents it may record.
OwnRev == Rev(1)

SampleDownRevisions == {<<>>, <<Rev(2)>>, <<Rev(2), Rev(3)>>}

Message == <<"#", "message", NL>>

\* Texts the templates do not produce: no down_revision line, the value on
\* the line after "down_revision =", two down_revision lines, a revision
\* line whose quotes differ, and no revision line.
IrregularFiles ==
    {Message \o RevisionLine(OwnRev) \o <<NL>> \o Body,
     Message \o RevisionLine(OwnRev) \o <<NL>>
        \o <<"down_revision", SP, "=", NL, SP, SQ, Rev(2), SQ, NL>> \o Body,
     Message \o RevisionLine(OwnRev) \o <<NL>>
        \o DownRevisionLine(Rev(2)) \o <<NL>> \o DownRevisionLine(Rev(3)) \o <<NL>> \o Body,
     Message \o <<"revision", SP, "=", SP, SQ, OwnRev, DQ, NL>>
        \o DownRevisionLine(Rev(2)) \o <<NL>> \o Body,
     Message \o DownRevisionLine(Rev(2)) \o <<NL>> \o Body}

SampleFiles ==
    {RenderScript(OwnRev, d, style) : d \in SampleDownRevisions, style \in Styles}
    \cup IrregularFiles

\* The values passed as new_down_revision: None, "" and revision ids.
ParentValues == {None, ""} \cup (Revs \ {OwnRev})

InitFile ==
    /\ scriptDir = <<>>
    /\ files \in {[path \in {OwnRev} |-> content] : content \in SampleFiles}
    /\ result = NoResult
    /\ NoRun

\* A direct call of _update_migration_file on the file, with the script's
\* own revision id as old_revision and new_revision.
CallUpdateMigrationFile ==
    \E new_down_revision \in ParentValues :
        /\ files' = [files EXCEPT ![OwnRev] =
                        UpdateMigrationFile(@, OwnRev, OwnRev, new_down_revision)]
        /\ result' = [op |-> "update",
                      new_down_revision |-> new_down_revision,
                      before |-> files[OwnRev],
                      repeated |-> /\ result.op = "update"
                                   /\ result.new_down_revision = new_down_revision]
        /\ UNCHANGED <<scriptDir, runVars>>

\* A direct call of _parse_migration_file on the file.
CallParseMigrationFile ==
    /\ result' = [op |-> "parse", out |-> ParseMigrationFile(files[OwnRev]),
                  after |-> result]
    /\ result.op # "parse"
    /\ UNCHANGED <<scriptDir, files, runVars>>

NextFile == CallUpdateMigrationFile \/ CallParseMigrationFile

SpecFile == InitFile /\ [][NextFile]_vars

-----------------------------------------------------------------------------
(* A rebase run: AlembicRebase.rebase(base_head, top_head) on the script   *)
(* files of a well-formed history, one step per Migration Engine call and  *)
(* per file written.  The Migration Engine answers a call with success or  *)
(* with an exception.  Before the run the store has every script          *)
(* applied: its heads are the heads of the files.                          *)

\* The files of a history: every script in the tests' style, but for the
\* script of revision `odd`, written in style `style`.
RenderFiles(sd, odd, style) ==
    [r \in DOMAIN sd |->
        RenderScript(r, sd[r].down_revision, IF r = odd THEN style ELSE "single")]

\* What varies between runs beside the forest: nothing, one merge point
\* whose second parent is an earlier revision, one script written in another
\* style, or a script directory whose get_heads() raises.
Variations ==
    {[kind |-> "none", at |-> 0, to |-> 0, style |-> "single"],
     [kind |-> "get_heads_raises", at |-> 0, to |-> 0, style |-> "single"]}
    \cup {[kind |-> "merge", at |-> i, to |-> j, style |-> "single"] :
            i \in 1..NumRevs, j \in 1..NumRevs}
    \cup {[kind |-> "style", at |-> i, to |-> 0, style |-> st] :
            i \in 1..NumRevs, st \in Styles \ {"single"}}

InitRebase ==
    /\ \E par \in Forests, v \in Variations :
          LET sd == BuildScriptDir(par, v)
          IN /\ v.kind = "merge" => v.to < v.at
             /\ files = RenderFiles(sd, IF v.kind = "style" THEN Rev(v.at) ELSE NoSuchRev,
                                    v.style)
             /\ getHeadsRaises = (v.kind = "get_heads_raises")
             /\ dbHeads = GetHeads(sd)
    /\ scriptDir = <<>>
    /\ result = NoResult
    /\ pc = "Start"
    /\ error = NoError
    /\ heads = NoHeads
    /\ plan = NoPlan
    /\ index = 0
    /\ calls = <<>>
    /\ files0 = files
    /\ config = None

Fail(phase, kind) ==
    /\ pc' = "Failed"
    /\ error' = [phase |-> phase, kind |-> kind]

\* The arguments a run is started with.
HeadArguments == Revs \cup {NoSuchRev}

(* The start of rebase: _load_alembic_config, which raises when the     *)
(* configuration file is not there and loads the script directory from    *)
(* the files otherwise.                                                    *)
LoadAlembicConfig ==
    \E found \in BOOLEAN :
        /\ pc = "Start"
        /\ IF found
           THEN /\ config' = "loaded"
                /\ scriptDir' = LoadScriptDirectory(files)
                /\ pc' = "Validating"
                /\ error' = error
           ELSE Fail("Validating", "config_not_found") /\ UNCHANGED <<config, scriptDir>>
        /\ UNCHANGED <<files, result, getHeadsRaises, heads, plan, index, calls,
                       dbHeads, files0>>

\* A phase 1 that asks the engine to downgrade to base_head before it has
\* validated anything.
ValidatingAfterDowngrade ==
    \E base_head \in HeadArguments, top_head \in HeadArguments :
        LET valid == ValidateRevisions(scriptDir, TRUE, getHeadsRaises, top_head, base_head)
            analysis == ChainAnalysis(scriptDir, TRUE, top_head, base_head)
        IN /\ pc = "Validating"
           /\ heads' = [base_head |-> base_head, top_head |-> top_head]
           /\ calls' = Append(calls, [op |-> "downgrade", revision |-> base_head])
           /\ IF valid # "ok"
              THEN Fail("Validating", valid) /\ plan' = plan
              ELSE IF analysis.outcome # "ok"
              THEN Fail("Validating", analysis.outcome) /\ plan' = plan
              ELSE /\ pc' = "Downgrading"
                   /\ plan' = analysis.plan
                   /\ error' = error
           /\ UNCHANGED <<scriptDir, files, result, getHeadsRaises, index,
                          dbHeads, files0, config>>

(* Phase 1 of rebase for the arguments of the run: _validate_revisions    *)
(* and the chain analysis.  alembic raises for a revision id it does not  *)
(* know.                                                                   *)
Validating ==
    \E base_head \in HeadArguments, top_head \in HeadArguments :
        LET valid == ValidateRevisions(scriptDir, TRUE, getHeadsRaises, top_head, base_head)
            analysis == ChainAnalysis(scriptDir, TRUE, top_head, base_head)
        IN /\ pc = "Validating"
           /\ heads' = [base_head |-> base_head, top_head |-> top_head]
           /\ IF valid # "ok"
              THEN Fail("Validating", valid) /\ plan' = plan
              ELSE IF analysis.outcome # "ok"
              THEN Fail("Validating", analysis.outcome) /\ plan' = plan
              ELSE /\ pc' = "Downgrading"
                   /\ plan' = analysis.plan
                   /\ error' = error
           /\ UNCHANGED <<scriptDir, files, result, getHeadsRaises, index, calls,
                          dbHeads, files0, config>>

\* What the store records after a successful downgrade to a revision: in
\* the history the files record, the applied heads that descend from the
\* revision give way to it.
HeadsAfterDowngrade(disk, applied, revision) ==
    LET sd == LoadScriptDirectory(disk)
    IN {h \in applied : revision \notin ProperAncestors(sd, h)} \cup {revision}

\* What the store records after a successful upgrade to a revision: the
\* applied heads the revision descends from give way to it.
HeadsAfterUpgrade(disk, applied, revision) ==
    LET sd == LoadScriptDirectory(disk)
    IN (applied \ ProperAncestors(sd, revision)) \cup {revision}

\* A phase 2 that asks the engine to downgrade to base_head instead of the
\* common ancestor.
DowngradingToBaseHead ==
    \E ok \in BOOLEAN :
        LET top_chain_after_ancestor ==
                TopChainAfterAncestor(plan.top_chain, plan.common_ancestor)
        IN /\ pc = "Downgrading"
           /\ calls' = Append(calls, [op |-> "downgrade", revision |-> heads.base_head])
           /\ IF ~ok
              THEN Fail("Downgrading", "engine") /\ UNCHANGED <<dbHeads, plan, index>>
              ELSE /\ dbHeads' = HeadsAfterDowngrade(files, dbHeads, heads.base_head)
                   /\ IF top_chain_after_ancestor = <<>>
                      THEN Fail("Rewriting", "no_top_migrations") /\ UNCHANGED <<plan, index>>
                      ELSE /\ plan' = [plan EXCEPT !.last_top_migration =
                                          top_chain_after_ancestor[Len(top_chain_after_ancestor)]]
                           /\ index' = 1
                           /\ pc' = "Rewriting"
                           /\ error' = error
           /\ UNCHANGED <<scriptDir, files, result, getHeadsRaises, heads, files0, config>>

\* A phase 2 that, once the downgrade has succeeded, goes straight on to
\* the upgrades.
DowngradingSkipsRewriting ==
    \E ok \in BOOLEAN :
        /\ pc = "Downgrading"
        /\ calls' = Append(calls, [op |-> "downgrade", revision |-> plan.common_ancestor])
        /\ IF ~ok
           THEN Fail("Downgrading", "engine") /\ UNCHANGED <<dbHeads, index>>
           ELSE /\ dbHeads' = HeadsAfterDowngrade(files, dbHeads, plan.common_ancestor)
                /\ index' = 0
                /\ pc' = "Applying"
                /\ error' = error
        /\ UNCHANGED <<scriptDir, files, result, getHeadsRaises, heads, plan, files0, config>>

(* Phase 2 of rebase: _downgrade_to_revision(common_ancestor), and on its *)
(* success the choice of last_top_migration that opens phase 3.           *)
Downgrading ==
    \E ok \in BOOLEAN :
        LET top_chain_after_ancestor ==
                TopChainAfterAncestor(plan.top_chain, plan.common_ancestor)
        IN /\ pc = "Downgrading"
           /\ calls' = Append(calls, [op |-> "downgrade", revision |-> plan.common_ancestor])
           /\ IF ~ok
              THEN Fail("Downgrading", "engine") /\ UNCHANGED <<dbHeads, plan, index>>
              ELSE /\ dbHeads' = HeadsAfterDowngrade(files, dbHeads, plan.common_ancestor)
                   /\ IF top_chain_after_ancestor = <<>>
                      THEN Fail("Rewriting", "no_top_migrations") /\ UNCHANGED <<plan, index>>
                      ELSE /\ plan' = [plan EXCEPT !.last_top_migration =
                                          top_chain_after_ancestor[Len(top_chain_after_ancestor)]]
                           /\ index' = 1
                           /\ pc' = "Rewriting"
                           /\ error' = error
           /\ UNCHANGED <<scriptDir, files, result, getHeadsRaises, heads, files0, config>>

\* A loop that, once it has written the last file, starts over with the
\* first one.
RewriteMigrationFileAgain ==
    LET revision == plan.migrations_to_rebase[index]
        file_path == FindMigrationFile(scriptDir, revision)
        new_down_revision ==
            NewDownRevision(plan.migrations_to_rebase, plan.last_top_migration, index)
    IN /\ pc = "Rewriting"
       /\ index <= Len(plan.migrations_to_rebase)
       /\ IF file_path = None
          THEN Fail("Rewriting", "file_not_found") /\ UNCHANGED <<files, index>>
          ELSE /\ files' = [files EXCEPT ![file_path] =
                               UpdateMigrationFile(@, revision, revision, new_down_revision)]
               /\ index' = IF index = Len(plan.migrations_to_rebase) THEN 1 ELSE index + 1
               /\ UNCHANGED <<pc, error>>
       /\ UNCHANGED <<scriptDir, result, getHeadsRaises, heads, plan, calls, dbHeads, files0, config>>

(* One turn of the loop of _rewrite_migration_files: the file of the next *)
(* migration of migrations_to_rebase is read, relinked and written back.  *)
RewriteMigrationFile ==
    LET revision == plan.migrations_to_rebase[index]
        file_path == FindMigrationFile(scriptDir, revision)
        new_down_revision ==
            NewDownRevision(plan.migrations_to_rebase, plan.last_top_migration, index)
    IN /\ pc = "Rewriting"
       /\ index <= Len(plan.migrations_to_rebase)
       /\ IF file_path = None
          THEN Fail("Rewriting", "file_not_found") /\ UNCHANGED <<files, index>>
          ELSE /\ files' = [files EXCEPT ![file_path] =
                               UpdateMigrationFile(@, revision, revision, new_down_revision)]
               /\ index' = index + 1
               /\ UNCHANGED <<pc, error>>
       /\ UNCHANGED <<scriptDir, result, getHeadsRaises, heads, plan, calls, dbHeads, files0, config>>

\* An end of phase 3 that goes on to phase 4 whatever the integrity
\* validation says.
ValidatingIntegrityUnchecked ==
    /\ pc = "Rewriting"
    /\ index > Len(plan.migrations_to_rebase)
    /\ pc' = "Applying"
    /\ index' = 0
    /\ error' = error
    /\ UNCHANGED <<scriptDir, files, result, getHeadsRaises, heads, plan, calls,
                   dbHeads, files0, config>>

(* The integrity validation that ends phase 3, once every file is         *)
(* written: each file of migrations_to_rebase, then the chain.            *)
ValidatingIntegrity ==
    LET outcome == IntegrityValidation(scriptDir, files, plan.migrations_to_rebase)
    IN /\ pc = "Rewriting"
       /\ index > Len(plan.migrations_to_rebase)
       /\ IF outcome # "ok"
          THEN Fail("Rewriting", outcome) /\ UNCHANGED index
          ELSE /\ pc' = "Applying"
               /\ index' = 0
               /\ error' = error
       /\ UNCHANGED <<scriptDir, files, result, getHeadsRaises, heads, plan, calls,
                      dbHeads, files0, config>>

\* The revision the next upgrade of phase 4 goes to: top_head first, then
\* the migrations of migrations_to_rebase in order.
UpgradeTarget == IF index = 0 THEN heads.top_head ELSE plan.migrations_to_rebase[index]

(* Phase 4 of rebase: one call of _upgrade_to_head.  The run is done when *)
(* the call for the last migration has returned.                          *)
Applying ==
    \E ok \in BOOLEAN :
        /\ pc = "Applying"
        /\ calls' = Append(calls, [op |-> "upgrade", revision |-> UpgradeTarget])
        /\ IF ~ok
           THEN Fail("Applying", "engine") /\ UNCHANGED <<dbHeads, index>>
           ELSE /\ dbHeads' = HeadsAfterUpgrade(files, dbHeads, UpgradeTarget)
                /\ index' = index + 1
                /\ pc' = IF index + 1 > Len(plan.migrations_to_rebase)
                         THEN "Done" ELSE "Applying"
                /\ error' = error
        /\ UNCHANGED <<scriptDir, files, result, getHeadsRaises, heads, plan, files0, config>>

Next ==
    \/ LoadAlembicConfig
    \/ Validating
    \/ Downgrading
    \/ RewriteMigrationFile
    \/ ValidatingIntegrity
    \/ Applying

Spec == InitRebase /\ [][Next]_vars

(* rebase is one coroutine, run to its end by the event loop: each step   *)
(* is taken as soon as the one before has returned, and the engine        *)
(* answers every call.  No phase is left waiting for ever: the loading,   *)
(* the validation, the downgrade and each upgrade are weakly fair.  In    *)
(* phase 3 every step of the run is a turn of the rewriting loop or the   *)
(* integrity validation that ends it, and each one moves the position of  *)
(* the run; the fairness of phase 3 is stated on that change of position. *)
RewritingTurn ==
    /\ pc = "Rewriting"
    /\ pc' \in {"Rewriting", "Applying", "Failed"}
    /\ index' \in 0..(NumRevs + 1)

SpecLive ==
    /\ InitRebase /\ [][Next]_vars
    /\ WF_vars(LoadAlembicConfig) /\ WF_vars(Validating)
    /\ WF_vars(Downgrading) /\ WF_vars(Applying)
    /\ WF_<<pc, index>>(RewritingTurn)

-----------------------------------------------------------------------------
(* A run that failed in the integrity validation of phase 3, after which   *)
(* the operator repairs the script files the validation turned down and    *)
(* starts rebase again with the same arguments.  The files are as the      *)
(* first run left them and the store is where its downgrade left it.       *)

\* The migrations of the plan whose file fails the per-file check.
OffendingScripts ==
    {k \in 1..Len(plan.migrations_to_rebase) :
        ~ValidateMigrationFileIntegrity(scriptDir, files, plan.migrations_to_rebase[k])}

\* The parents a repaired file may record for the k-th migration: the one
\* the rewrite was to give it, or the one parent it recorded before.
RepairedParents(k) ==
    {NewDownRevision(plan.migrations_to_rebase, plan.last_top_migration, k)}
    \cup (IF Len(scriptDir[plan.migrations_to_rebase[k]].down_revision) = 1
          THEN {scriptDir[plan.migrations_to_rebase[k]].down_revision[1]}
          ELSE {})

\* rebase has raised "Migration file integrity validation failed" after
\* writing files; the operator writes each offending script anew in the
\* style the file operations read, and calls rebase again.
FixAndRerun ==
    /\ pc = "Failed"
    /\ error = [phase |-> "Rewriting", kind |-> "file_integrity"]
    /\ files # files0
    /\ result = NoResult
    /\ \E parent \in [OffendingScripts -> Revs] :
          /\ \A k \in OffendingScripts : parent[k] \in RepairedParents(k)
          /\ files' = [path \in DOMAIN files |->
                          IF \E k \in OffendingScripts :
                                 FindMigrationFile(scriptDir, plan.migrations_to_rebase[k]) = path
                          THEN LET k == CHOOSE k \in OffendingScripts :
                                            FindMigrationFile(scriptDir,
                                                plan.migrations_to_rebase[k]) = path
                               IN RenderScript(plan.migrations_to_rebase[k],
                                               <<parent[k]>>, "single")
                          ELSE files[path]]
    /\ result' = [op |-> "rerun", heads |-> heads,
                  migrations_to_rebase |-> plan.migrations_to_rebase]
    /\ pc' = "Start"
    /\ error' = NoError
    /\ heads' = NoHeads
    /\ plan' = NoPlan
    /\ index' = 0
    /\ calls' = <<>>
    /\ scriptDir' = <<>>
    /\ config' = None
    /\ UNCHANGED <<getHeadsRaises, dbHeads, files0>>

\* Phase 1 of rebase; in the second run the arguments are those of the
\* first.
ValidatingSameArguments ==
    /\ Validating
    /\ result.op = "rerun" => heads' = result.heads

NextRerun ==
    \/ LoadAlembicConfig
    \/ ValidatingSameArguments
    \/ Downgrading
    \/ RewriteMigrationFile
    \/ ValidatingIntegrity
    \/ Applying
    \/ FixAndRerun

SpecRerun == InitRebase /\ [][NextRerun]_vars

-----------------------------------------------------------------------------
(* Direct calls of the linkage check on the files of a history, as        *)
(* test_validation_methods makes them: the files are those of a forest,   *)
(* one of them possibly written in another style.                         *)

InitIntegrity ==
    /\ \E par \in Forests, v \in Variations :
          /\ v.kind \in {"none", "style"}
          /\ files = RenderFiles(BuildScriptDir(par, v),
                                 IF v.kind = "style" THEN Rev(v.at) ELSE NoSuchRev, v.style)
    /\ scriptDir = LoadScriptDirectory(files)
    /\ result = NoResult
    /\ NoRun

\* The sequences of one to three different revision ids, with or without a
\* script, the check is called with.
MigrationLists ==
    {migrations \in UNION {[1..n -> HeadArguments] : n \in 1..3} :
        \A i, j \in DOMAIN migrations : i # j => migrations[i] # migrations[j]}

\* A direct call of _validate_migration_chain_integrity(migrations).
CallValidateMigrationChainIntegrity ==
    \E migrations \in MigrationLists :
        /\ result = NoResult
        /\ result' = [op |-> "chain_integrity", migrations |-> migrations,
                      out |-> ValidateMigrationChainIntegrity(scriptDir, files, migrations, 1)]
        /\ UNCHANGED <<scriptDir, files, runVars>>

NextIntegrity == CallValidateMigrationChainIntegrity

SpecIntegrity == InitIntegrity /\ [][NextIntegrity]_vars

(* The call of _validate_migration_chain_integrity that rebase makes after *)
(* a rewrite: the argument is migrations_to_rebase; last_top_migration,    *)
(* the parent the rewrite was to give the first of them, is a local of     *)
(* rebase and is not passed on.                                            *)
CallValidateMigrationChainIntegrityForPlan ==
    \E migrations \in MigrationLists :
        \E last_top_migration \in Revs \ SeqToSet(migrations) :
            /\ result = NoResult
            /\ Len(migrations) <= 2
            /\ result' = [op |-> "chain_integrity_for_plan", migrations |-> migrations,
                          last_top_migration |-> last_top_migration,
                          out |-> ValidateMigrationChainIntegrity(scriptDir, files,
                                                                  migrations, 1)]
            /\ UNCHANGED <<scriptDir, files, runVars>>

NextIntegrityForPlan == CallValidateMigrationChainIntegrityForPlan

SpecIntegrityForPlan == InitIntegrity /\ [][NextIntegrityForPlan]_vars

-----------------------------------------------------------------------------
(* The object from its construction on, with the private operations       *)
(* called on it directly as the tests call them.                          *)

InitConstruct ==
    /\ \E par \in Forests, v \in Variations :
          /\ v.kind \in {"none", "style"}
          /\ files = RenderFiles(BuildScriptDir(par, v),
                                 IF v.kind = "style" THEN Rev(v.at) ELSE NoSuchRev, v.style)
    /\ scriptDir = <<>>
    /\ result = NoResult
    /\ NoRun

\* What a failed `assert self.script_dir is not None` raises.
AssertionError == "AssertionError"

\* AlembicRebase.__init__(alembic_ini_path): the path is stored, config and
\* script_dir are set to None.  `ini` says whether the file at the path
\* exists; the constructor does not look.
Construct ==
    \E ini \in BOOLEAN :
        /\ result = NoResult
        /\ result' = [op |-> "construct", ini |-> ini, out |-> "ok"]
        /\ UNCHANGED <<scriptDir, files, runVars>>

\* A direct call of _load_alembic_config() on the constructed object.
CallLoadAlembicConfig ==
    /\ result.op = "construct"
    /\ IF result.ini
       THEN /\ config' = "loaded"
            /\ scriptDir' = LoadScriptDirectory(files)
            /\ result' = [op |-> "load", ini |-> result.ini, out |-> "ok"]
       ELSE /\ result' = [op |-> "load", ini |-> result.ini, out |-> "AlembicRebaseError"]
            /\ UNCHANGED <<config, scriptDir>>
    /\ UNCHANGED <<files, getHeadsRaises, pc, error, heads, plan, index, calls,
                   dbHeads, files0>>

\* A direct call of _find_migration_file(revision) on the object.
CallFindMigrationFile ==
    \E revision \in HeadArguments :
        /\ result.op \in {"construct", "load"}
        /\ result' = [op |-> "find_file", ini |-> result.ini, revision |-> revision,
                      out |-> IF config = None THEN AssertionError
                              ELSE FindMigrationFile(scriptDir, revision)]
        /\ UNCHANGED <<scriptDir, files, runVars>>

\* A direct call of _get_migration_chain(revision) on the object.
CallGetMigrationChainOnObject ==
    \E revision \in HeadArguments :
        /\ result.op \in {"construct", "load"}
        /\ result' = [op |-> "chain_on_object", ini |-> result.ini, revision |-> revision,
                      out |-> IF config = None THEN [kind |-> AssertionError, chain |-> <<>>]
                              ELSE GetMigrationChain(scriptDir, TRUE, revision)]
        /\ UNCHANGED <<scriptDir, files, runVars>>

NextConstruct ==
    \/ Construct
    \/ CallLoadAlembicConfig
    \/ CallFindMigrationFile
    \/ CallGetMigrationChainOnObject

SpecConstruct == InitConstruct /\ [][NextConstruct]_vars

-----------------------------------------------------------------------------
(* Properties of histories, stated on the revision map alone.              *)

Acyclic(sd) == \A r \in DOMAIN sd : r \notin ProperAncestors(sd, r)

AllParentsPresent(sd) == \A r \in DOMAIN sd : ParentsOf(sd, r) \subseteq DOMAIN sd

WellFormed(sd) == Acyclic(sd) /\ AllParentsPresent(sd)

NoDuplicates(s) == \A i, j \in 1..Len(s) : i # j => s[i] # s[j]

\* The last element of chain b that also occurs in chain a, None if none.
DeepestShared(a, b) ==
    LET shared == {i \in 1..Len(b) : b[i] \in SeqToSet(a)}
    IN IF shared = {} THEN None
       ELSE b[CHOOSE i \in shared : \A j \in shared : j <= i]

-----------------------------------------------------------------------------
(* Claims about the chain operations, checked under SpecChain.             *)

\* C1: on an acyclic history, when the chains of a and b share a revision,
\* _find_common_ancestor(a, b) returns the deepest shared revision: the last
\* element of the chain of b that occurs in the chain of a.
C1_DeepestCommonAncestor ==
    (/\ result.op = "ancestor"
     /\ Acyclic(scriptDir)
     /\ result.out.kind = "ok")
    => LET chainA == GetMigrationChain(scriptDir, result.strict, result.a).chain
           chainB == GetMigrationChain(scriptDir, result.strict, result.b).chain
       IN SeqToSet(chainA) \cap SeqToSet(chainB) # {}
          => result.out.value = DeepestShared(chainA, chainB)

\* C2: on an acyclic history _find_common_ancestor(a, b) and
\* _find_common_ancestor(b, a) return the same thing, a revision or nothing.
C2_AncestorSymmetric ==
    (result.op = "ancestor" /\ Acyclic(scriptDir))
    => result.out = result.swapped

\* Two distinct heads with a common ancestor that is neither of them, and
\* two heads of unrelated trees, each with a script.
C2_Witness ==
    /\ result.op = "ancestor"
    /\ Acyclic(scriptDir)
    /\ result.a # result.b
    /\ result.out.kind = "ok"
    /\ result.out.value \notin {None, result.a, result.b}

\* C3: on a well-formed history the chain of a revision x that has a script
\* is duplicate-free and oldest first: it starts at a revision without a
\* parent, ends in x, and each later element records the one before it as
\* its first parent.
C3_ChainShape ==
    (/\ result.op = "chain"
     /\ WellFormed(scriptDir)
     /\ HasScript(scriptDir, result.revision))
    => /\ result.out.kind = "ok"
       /\ LET chain == result.out.chain
          IN /\ NoDuplicates(chain)
             /\ Len(chain) >= 1
             /\ scriptDir[chain[1]].down_revision = <<>>
             /\ chain[Len(chain)] = result.revision
             /\ \A i \in 2..Len(chain) : FirstParent(scriptDir, chain[i]) = chain[i - 1]

\* A chain of three revisions or more in a well-formed history.
C3_Witness ==
    /\ result.op = "chain"
    /\ WellFormed(scriptDir)
    /\ HasScript(scriptDir, result.revision)
    /\ result.out.kind = "ok"
    /\ Len(result.out.chain) >= 3

\* The id the walk of _get_migration_chain asks get_revision for after n
\* steps from x over first parents; None once the walk is past a root or an
\* id without a script.
RECURSIVE WalkedId(_, _, _)
WalkedId(sd, x, n) ==
    IF n = 0 THEN x
    ELSE LET prev == WalkedId(sd, x, n - 1)
         IN IF prev = None \/ ~HasScript(sd, prev) THEN None
            ELSE FirstParent(sd, prev)

\* The walk from x comes to an id that has no script.
WalkMeetsMissing(sd, x) ==
    \E n \in 0..Cardinality(DOMAIN sd) :
        WalkedId(sd, x, n) # None /\ ~HasScript(sd, WalkedId(sd, x, n))

\* The walk from x comes back to an id it has been at.
WalkMeetsCycle(sd, x) ==
    \E m, n \in 0..Cardinality(DOMAIN sd) :
        m < n /\ WalkedId(sd, x, m) # None /\ WalkedId(sd, x, m) = WalkedId(sd, x, n)

\* C14: _get_migration_chain(x) returns or raises on every history: when the
\* walk over parent links comes back to a revision it has visited, the call
\* fails with an error and does not go round the cycle for ever.
C14_ChainTerminatesOnCycle ==
    result.op = "chain"
    => /\ result.out.kind # "loop"
       /\ WalkMeetsCycle(scriptDir, result.revision) => result.out.kind = "raise"

\* C15: _get_migration_chain(x) fails with an error when x, or a revision
\* the walk over parent links comes to, has no script; it returns no chain,
\* empty or cut short, in that case.
C15_MissingRevisionFails ==
    (result.op = "chain" /\ WalkMeetsMissing(scriptDir, result.revision))
    => result.out.kind = "raise"

-----------------------------------------------------------------------------
(* Claims about the file operations, checked under SpecFile.               *)

\* The revisions x reaches over links to the parent recorded first, x among
\* them, in at most n steps.
RECURSIVE FirstParentLineage(_, _, _)
FirstParentLineage(sd, x, n) ==
    IF ~HasScript(sd, x) THEN {}
    ELSE IF n = 0 \/ sd[x].down_revision = <<>> THEN {x}
    ELSE {x} \cup FirstParentLineage(sd, sd[x].down_revision[1], n - 1)

\* Some step of the walk from x leaves a merge point.
MergePointOnLineage(sd, x) ==
    \E r \in FirstParentLineage(sd, x, NumRevs) : Len(sd[r].down_revision) > 1

\* C30: the chain _get_migration_chain returns for a revision holds the
\* revisions reached over links to the parent recorded first, each once,
\* every one the first recorded parent of the next, and holds no revision
\* that is reached from it over other links only.
C30_FirstParentOnly ==
    (result.op = "chain" /\ result.out.kind = "ok")
    => LET chain == result.out.chain
           lineage == FirstParentLineage(scriptDir, result.revision, NumRevs)
       IN /\ SeqToSet(chain) = lineage
          /\ NoDuplicates(chain)
          /\ \A i \in 2..Len(chain) : scriptDir[chain[i]].down_revision[1] = chain[i - 1]
          /\ \A r \in ProperAncestors(scriptDir, result.revision) \ lineage :
                r \notin SeqToSet(chain)

\* A chain through a merge point whose second parent, and what lies behind
\* it, is not on the lineage of the first.
C30_Witness ==
    /\ result.op = "chain"
    /\ result.out.kind = "ok"
    /\ Len(result.out.chain) >= 3
    /\ MergePointOnLineage(scriptDir, result.revision)
    /\ ProperAncestors(scriptDir, result.revision) \ SeqToSet(result.out.chain) # {}

\* Whether a match lies on one line.
OnOneLine(content, first, last) == \A k \in first..last : content[k] # NL

\* The position of the first match of a pattern from position i, 0 if none.
RECURSIVE FirstMatchAt(_, _, _)
FirstMatchAt(pattern, content, i) ==
    IF i > Len(content) THEN 0
    ELSE IF Match(pattern, content, i).matched THEN i
    ELSE FirstMatchAt(pattern, content, i + 1)

\* The script has a revision line and a parent-link line that the code's
\* patterns read, each on one line, and the revision read is `revision`.
LinesParseable(content, revision) ==
    LET r == FirstMatchAt(RevisionPattern, content, 1)
        d == FirstMatchAt(DownRevisionPattern, content, 1)
    IN /\ r # 0
       /\ d # 0
       /\ OnOneLine(content, r, MatchRevision(content, r).last)
       /\ OnOneLine(content, d, MatchDownRevision(content, d).last)
       /\ ParseMigrationFile(content).revision = revision

\* The two texts have the same lines, but for lines that are parent-link
\* lines (lines starting with down_revision) in the first.
OnlyParentLinkLinesDiffer(before, after) ==
    /\ Len(Lines(before)) = Len(Lines(after))
    /\ \A k \in 1..Len(Lines(before)) :
          Lines(before)[k] # Lines(after)[k]
          => TokenAt(Lines(before)[k], 1) = "down_revision"

\* C7: relinking a script whose revision and parent-link lines are parseable
\* changes the parent-link line only; every other line of the file, the
\* revision line included, is the same before and after.
C7_RelinkChangesOnlyParentLine ==
    (result.op = "update" /\ LinesParseable(result.before, OwnRev))
    => OnlyParentLinkLinesDiffer(result.before, files[OwnRev])

\* C8: relinking to the same parent value a second time leaves the file as
\* the first relinking wrote it.
C8_RelinkIdempotent ==
    (result.op = "update" /\ result.repeated)
    => files[OwnRev] = result.before

\* A second relinking to the same revision id of a file whose parent link
\* the first one has set to it.
C8_Witness ==
    /\ result.op = "update"
    /\ result.repeated
    /\ result.new_down_revision \in Revs
    /\ ParseMigrationFile(files[OwnRev]).down_revision = result.new_down_revision

\* The code's patterns find a revision line and a parent-link line in the
\* text, and the revision read is `revision`.
BothLinesRead(content, revision) ==
    /\ Search(RevisionPattern, content, 1).matched
    /\ Search(DownRevisionPattern, content, 1).matched
    /\ ParseMigrationFile(content).revision = revision

-----------------------------------------------------------------------------
(* Claims about a rebase run, checked under Spec.                          *)

\* The parents alembic reads for a revision from the files as they are now.
PersistedParent(revision) ==
    LET sd == LoadScriptDirectory(files)
    IN IF HasScript(sd, revision) THEN sd[revision].down_revision ELSE <<None>>

\* The rewriting phase is over: the files are written and have passed the
\* integrity validation.
RewritingCompleted ==
    \/ pc \in {"Applying", "Done"}
    \/ pc = "Failed" /\ error.phase = "Applying"

\* C4: once the rewriting phase is over, the file of the first migration to
\* rebase records top_head as its parent, in the text and as alembic loads
\* it, and the file of every later one records the migration before it.
C4_RebaseSetLinkage ==
    RewritingCompleted
    => \A i \in 1..Len(plan.migrations_to_rebase) :
          LET revision == plan.migrations_to_rebase[i]
              expected == IF i = 1 THEN heads.top_head
                          ELSE plan.migrations_to_rebase[i - 1]
          IN /\ PersistedParent(revision) = <<expected>>
             /\ ParseMigrationFile(files[FindMigrationFile(scriptDir, revision)]).down_revision
                   = expected

\* A run past the rewriting of two migrations, the first of which had
\* another parent before.
C4_Witness ==
    /\ pc = "Applying"
    /\ Len(plan.migrations_to_rebase) = 2
    /\ files[plan.migrations_to_rebase[1]] # files0[plan.migrations_to_rebase[1]]

\* The two arguments of the run are different heads of the history the run
\* started from.
DivergedHeads ==
    LET sd == LoadScriptDirectory(files0)
    IN /\ heads.base_head # heads.top_head
       /\ {heads.base_head, heads.top_head} \subseteq GetHeads(sd)

\* The history in the files is one line from the root of top_head's chain
\* through top_head to base_head.
LinearSingleHeaded ==
    LET before == LoadScriptDirectory(files0)
        after == LoadScriptDirectory(files)
        top_chain == GetMigrationChain(before, FALSE, heads.top_head).chain
        base_chain == GetMigrationChain(before, FALSE, heads.base_head).chain
        both == SeqToSet(top_chain) \cup SeqToSet(base_chain)
        now == GetMigrationChain(after, FALSE, heads.base_head)
    IN /\ now.kind = "ok"
       /\ now.chain = top_chain \o plan.migrations_to_rebase
       /\ NoDuplicates(now.chain)
       /\ SeqToSet(now.chain) = both
       /\ \A r \in both :
             (r = heads.base_head) <=> ~\E c \in both : r \in ParentsOf(after, c)

\* C5: when a run on two diverged heads is done, the chain of base_head read
\* from the files is the original chain of top_head followed by the
\* migrations that were rebased, holds every revision of the two original
\* chains once, and base_head is the only one of them without a child.
C5_LinearSingleHeaded ==
    (pc = "Done" /\ DivergedHeads) => LinearSingleHeaded

\* C6: when a run is done there are migrations that were rebased, the last
\* call to the engine is the upgrade to the last of them, and that revision
\* is the one applied head of the store.
C6_SingleAppliedHead ==
    pc = "Done"
    => /\ plan.migrations_to_rebase # <<>>
       /\ calls # <<>>
       /\ calls[Len(calls)] =
             [op |-> "upgrade",
              revision |-> plan.migrations_to_rebase[Len(plan.migrations_to_rebase)]]
       /\ dbHeads = {plan.migrations_to_rebase[Len(plan.migrations_to_rebase)]}

\* C9: in every state of a run the script files are the files the run
\* started with, and each records the revision id it recorded then, in the
\* text and as alembic loads it.
C9_RevisionIdsImmutable ==
    /\ DOMAIN files = DOMAIN files0
    /\ \A path \in DOMAIN files :
          /\ ModuleAttr(files[path], "revision") = ModuleAttr(files0[path], "revision")
          /\ ParseMigrationFile(files[path]).revision
                = ParseMigrationFile(files0[path]).revision

\* A run that is done and has given two files a new text.
C9_Witness ==
    /\ pc = "Done"
    /\ Cardinality({path \in DOMAIN files : files[path] # files0[path]}) = 2

\* C10: a run that failed with one of the errors of _validate_revisions has
\* written no file and made no call to the engine.
C10_ValidationFailureMutatesNothing ==
    (pc = "Failed" /\ error.phase = "Validating" /\ error.kind \in ValidationErrors)
    => /\ files = files0
       /\ calls = <<>>
       /\ dbHeads = GetHeads(LoadScriptDirectory(files0))

\* A run turned down because neither head is reachable from the current
\* heads.
C10_Witness ==
    /\ pc = "Failed"
    /\ error = [phase |-> "Validating", kind |-> "not_reachable"]

\* The upgrade calls made to the engine so far.
UpgradeCalls == {k \in 1..Len(calls) : calls[k].op = "upgrade"}

\* The errors of the integrity validation of phase 3.
IntegrityErrors == {"file_integrity", "chain_integrity"}

\* C11: an upgrade has been asked of the engine only if every file of
\* migrations_to_rebase, as it is on disk after the last write, passes the
\* per-file check and the chain passes the linkage check; a run that failed
\* one of the two checks has asked for no upgrade.
C11_NoUpgradeBeforeIntegrity ==
    /\ UpgradeCalls # {}
       => /\ \A k \in 1..Len(plan.migrations_to_rebase) :
                ValidateMigrationFileIntegrity(scriptDir, files, plan.migrations_to_rebase[k])
          /\ ValidateMigrationChainIntegrity(scriptDir, files, plan.migrations_to_rebase, 1)
                = "true"
    /\ (pc = "Failed" /\ error.phase = "Rewriting" /\ error.kind \in IntegrityErrors)
       => UpgradeCalls = {}

\* A run that rewrote a file and then failed the per-file check.
C11_Witness ==
    /\ pc = "Failed"
    /\ error = [phase |-> "Rewriting", kind |-> "file_integrity"]
    /\ files # files0
    /\ UpgradeCalls = {}

\* The revisions the engine was asked to upgrade to, in the order of the
\* calls.
UpgradeTargets ==
    LET IsUpgrade(call) == call.op = "upgrade"
        upgrades == SelectSeq(calls, IsUpgrade)
    IN [k \in 1..Len(upgrades) |-> upgrades[k].revision]

\* The upgrades phase 4 is to ask for: top_head, then migrations_to_rebase.
PlannedUpgrades == <<heads.top_head>> \o plan.migrations_to_rebase

\* No upgrade in the sequence goes to a revision whose parent in the files
\* is upgraded to later in the sequence, and every upgrade after the first
\* goes to a revision whose parent in the files is an earlier target.
ParentsUpgradedFirst(targets) ==
    \A k \in 1..Len(targets) :
        /\ \A j \in (k + 1)..Len(targets) :
              targets[j] \notin SeqToSet(PersistedParent(targets[k]))
        /\ k > 1 => \E j \in 1..(k - 1) : PersistedParent(targets[k]) = <<targets[j]>>

\* C12: the upgrades asked of the engine are top_head first and then the
\* migrations of migrations_to_rebase in their order, one call each (all of
\* them when the run is done), and each goes to a revision whose parent in
\* the files was upgraded to before and not after.
C12_UpgradeOrder ==
    /\ Len(UpgradeTargets) <= Len(PlannedUpgrades)
    /\ UpgradeTargets = SubSeq(PlannedUpgrades, 1, Len(UpgradeTargets))
    /\ pc = "Done" => UpgradeTargets = PlannedUpgrades
    /\ ParentsUpgradedFirst(UpgradeTargets)

\* The run has taken its two arguments and _validate_revisions has let
\* them pass.
RevisionsValidated ==
    /\ heads # NoHeads
    /\ ~(pc = "Failed" /\ error.phase = "Validating"
         /\ error.kind \in ValidationErrors \cup {"raise", "loop"})

\* The chains of the two arguments in the history the run started from
\* have no revision in common.
ChainsDisjoint ==
    LET before == LoadScriptDirectory(files0)
    IN SeqToSet(GetMigrationChain(before, TRUE, heads.top_head).chain)
         \cap SeqToSet(GetMigrationChain(before, TRUE, heads.base_head).chain) = {}

\* C16: a run whose arguments pass _validate_revisions and whose chains
\* share no revision has failed with the no-common-ancestor error, with no
\* call made to the engine and every file as it was; and that error is
\* raised for no other runs.
C16_NoCommonAncestorFails ==
    /\ (RevisionsValidated /\ ChainsDisjoint)
       => /\ pc = "Failed"
          /\ error = [phase |-> "Validating", kind |-> "no_common_ancestor"]
          /\ calls = <<>>
          /\ files = files0
          /\ dbHeads = GetHeads(LoadScriptDirectory(files0))
    /\ (pc = "Failed" /\ error.kind = "no_common_ancestor")
       => RevisionsValidated /\ ChainsDisjoint

\* A run on the heads of two unrelated trees, failed for want of a common
\* ancestor.
C16_Witness ==
    /\ pc = "Failed"
    /\ error = [phase |-> "Validating", kind |-> "no_common_ancestor"]
    /\ ChainsDisjoint
    /\ {heads.top_head, heads.base_head} \subseteq GetHeads(scriptDir)

\* base_head lies on the chain of top_head in the history the run started
\* from: there is nothing to rebase.
BaseOnTopChain ==
    LET before == LoadScriptDirectory(files0)
    IN heads.base_head \in SeqToSet(GetMigrationChain(before, TRUE, heads.top_head).chain)

\* C17: a run whose arguments pass _validate_revisions and whose base_head
\* lies on the chain of top_head has failed in the validating phase without
\* a call to the engine; no run is done with nothing rebased.
C17_EmptyRebaseSetFails ==
    /\ (RevisionsValidated /\ BaseOnTopChain)
       => /\ pc = "Failed"
          /\ error.phase = "Validating"
          /\ calls = <<>>
    /\ pc = "Done" => plan.migrations_to_rebase # <<>>

\* The phases of a run in their order; the loading of the configuration
\* that opens rebase belongs to the first.
Phases == <<"Validating", "Downgrading", "Rewriting", "Applying", "Done">>

PhaseOf(at) == IF at = "Start" THEN "Validating" ELSE at

PhaseIndex(at) == CHOOSE k \in 1..Len(Phases) : Phases[k] = PhaseOf(at)

\* C20: a step of a run leaves the phase as it is, moves it to the next
\* phase of Validating, Downgrading, Rewriting, Applying, Done, or ends the
\* run in Failed; once the run is Done or Failed nothing changes any more:
\* no file is written and no call is made to the engine.
C20_PhasesForward ==
    [][/\ pc \notin {"Done", "Failed"}
          => \/ pc' = "Failed"
             \/ PhaseIndex(pc') \in {PhaseIndex(pc), PhaseIndex(pc) + 1}
       /\ pc \in {"Done", "Failed"}
          => pc' = pc /\ files' = files /\ calls' = calls /\ dbHeads' = dbHeads]_vars

\* A run that went through every phase, rewrote a file and is done.
C20_Witness ==
    /\ pc = "Done"
    /\ files # files0
    /\ Len(calls) >= 3

\* The downgrade calls made to the engine so far.
DowngradeCalls == {k \in 1..Len(calls) : calls[k].op = "downgrade"}

\* A file has been written by the rewriting phase.
FileWritten == files # files0 \/ (pc = "Rewriting" /\ index > 1)

\* The downgrade of phase 2 was asked of the engine and has returned.
DowngradeCompleted ==
    /\ calls # <<>>
    /\ calls[1].op = "downgrade"
    /\ ~(pc = "Failed" /\ error.phase = "Downgrading")

\* C21: a run asks the engine to downgrade at most once; the target is the
\* common ancestor of the plan, a revision on the chain of top_head and on
\* the chain of base_head in the history the run started from; and a file
\* is written or an upgrade asked for only after that call has returned.
C21_SingleDowngradeToAncestor ==
    LET before == LoadScriptDirectory(files0)
    IN /\ Cardinality(DowngradeCalls) <= 1
       /\ \A k \in DowngradeCalls :
             /\ calls[k].revision = plan.common_ancestor
             /\ calls[k].revision
                   \in SeqToSet(GetMigrationChain(before, TRUE, heads.top_head).chain)
             /\ calls[k].revision
                   \in SeqToSet(GetMigrationChain(before, TRUE, heads.base_head).chain)
       /\ (FileWritten \/ UpgradeCalls # {}) => DowngradeCompleted

\* A run in which the downgrade, two file writes and an upgrade have
\* happened.
C21_Witness ==
    /\ pc = "Applying"
    /\ DowngradeCalls = {1}
    /\ UpgradeCalls # {}
    /\ Cardinality({path \in DOMAIN files : files[path] # files0[path]}) = 2

\* The chain analysis has passed: the run has a plan.
Planned == plan # NoPlan

C23_OnlyBaseBranchRelinked ==
    LET before == LoadScriptDirectory(files0)
        top_chain == SeqToSet(GetMigrationChain(before, TRUE, heads.top_head).chain)
        base_chain == SeqToSet(GetMigrationChain(before, TRUE, heads.base_head).chain)
    IN Planned
       => /\ SeqToSet(plan.migrations_to_rebase) \cap top_chain = {}
          /\ \A r \in DOMAIN before :
                r \notin (base_chain \ top_chain)
                => files[before[r].path] = files0[before[r].path]

\* C26: no call is made to the engine twice in a run (the same direction
\* and revision), and a run that failed in an engine call made that call
\* last: after a failed downgrade the log holds that call alone and every
\* file is as it was, after a failed upgrade the log ends with it.
C26_NoEngineRetry ==
    /\ \A j, k \in 1..Len(calls) : j # k => calls[j] # calls[k]
    /\ (pc = "Failed" /\ error = [phase |-> "Downgrading", kind |-> "engine"])
       => /\ calls = <<[op |-> "downgrade", revision |-> plan.common_ancestor]>>
          /\ files = files0
    /\ (pc = "Failed" /\ error = [phase |-> "Applying", kind |-> "engine"])
       => /\ calls[Len(calls)].op = "upgrade"
          /\ UpgradeTargets = SubSeq(PlannedUpgrades, 1, Len(UpgradeTargets))

\* C27: in every state of a run each applied head of the store is a
\* revision that no script in the files names as a parent.
C27_AppliedHeadsAreLeaves ==
    dbHeads \subseteq GetHeads(LoadScriptDirectory(files))

\* The errors of the planning of a run: no common ancestor, the ancestor
\* not on the base chain, no migration of the top chain but the ancestor.
PlanningErrors == {"no_common_ancestor", "ancestor_not_in_base_chain", "no_top_migrations"}

\* C28: a run that failed with a planning error has made no call to the
\* engine and written no file, and the store is as it was.
C28_PlanningErrorsBeforeEffects ==
    (pc = "Failed" /\ error.kind \in PlanningErrors)
    => /\ calls = <<>>
       /\ files = files0
       /\ dbHeads = GetHeads(LoadScriptDirectory(files0))

\* C29: no run fails with "Could not find common ancestor in base chain":
\* the revision _find_common_ancestor returns for the arguments of the run,
\* the common ancestor of the plan, is on the chain of base_head.
C29_AncestorOnBaseChain ==
    LET found == FindCommonAncestor(scriptDir, TRUE, heads.top_head, heads.base_head)
        base_chain == GetMigrationChain(scriptDir, TRUE, heads.base_head).chain
    IN /\ ~(pc = "Failed" /\ error.kind = "ancestor_not_in_base_chain")
       /\ (heads # NoHeads /\ found.kind = "ok" /\ found.value # None)
          => found.value \in SeqToSet(base_chain)
       /\ Planned => plan.common_ancestor = found.value

\* A run whose plan has a common ancestor below base_head.
C29_Witness ==
    /\ pc = "Downgrading"
    /\ plan.common_ancestor \in Revs
    /\ plan.common_ancestor # heads.base_head
    /\ heads.top_head # plan.common_ancestor

-----------------------------------------------------------------------------
(* A claim about a second run after a failed one, checked under SpecRerun. *)

\* The run has taken its arguments: _validate_revisions has been called.
ArgumentsTaken == heads # NoHeads

\* The run failed in _validate_revisions with the given error.
ValidationFailedWith(kind) ==
    pc = "Failed" /\ error = [phase |-> "Validating", kind |-> kind]

\* C31: a run called with equal arguments fails with the same-head error,
\* whatever scripts and heads there are; otherwise a top_head without a
\* script fails with the top-head-does-not-exist error, and a base_head
\* without one (top_head having one) with the base-head one, also when
\* there are no current heads; and the no-current-heads error is raised
\* exactly when the arguments differ, both have scripts and no head is
\* found.
C31_ValidationPrecedence ==
    LET before == LoadScriptDirectory(files0)
        no_heads == GetCurrentHeadsFromFiles(before, getHeadsRaises) = {}
        differ == heads.top_head # heads.base_head
        top_exists == HasScript(before, heads.top_head)
        base_exists == HasScript(before, heads.base_head)
    IN ArgumentsTaken
       => /\ ~differ => ValidationFailedWith("same_head")
          /\ (differ /\ ~top_exists) => ValidationFailedWith("top_head_does_not_exist")
          /\ (differ /\ top_exists /\ ~base_exists)
             => ValidationFailedWith("base_head_does_not_exist")
          /\ ValidationFailedWith("no_current_heads")
             <=> (differ /\ top_exists /\ base_exists /\ no_heads)

\* A run on a revision without a script, failed with the does-not-exist
\* error although no current head is found.
C31_Witness ==
    /\ ValidationFailedWith("top_head_does_not_exist")
    /\ getHeadsRaises
    /\ heads.base_head \in Revs

\* C32: when the files a run started from record no cycle of parent links,
\* the files record none in any state of the run.
C32_NoCycleIntroduced ==
    ~HasCycle(LoadScriptDirectory(files0)) => ~HasCycle(LoadScriptDirectory(files))

\* No script of the directory the run loaded records more than one parent.
NoMergePoints == \A r \in DOMAIN scriptDir : Len(scriptDir[r].down_revision) <= 1

\* C33: on files without a cycle and without a merge point, with the current
\* heads read from them, a run whose arguments differ and both have scripts
\* passes _validate_revisions; the neither-is-reachable error is raised only
\* on a history with a merge point.
C33_ReachabilityErrorUnreachable ==
    /\ (/\ ArgumentsTaken
        /\ ~HasCycle(scriptDir)
        /\ NoMergePoints
        /\ GetCurrentHeadsFromFiles(scriptDir, getHeadsRaises) = GetHeads(scriptDir)
        /\ GetHeads(scriptDir) # {}
        /\ heads.top_head # heads.base_head
        /\ HasScript(scriptDir, heads.top_head)
        /\ HasScript(scriptDir, heads.base_head))
       => RevisionsValidated
    /\ ValidationFailedWith("not_reachable") => ~NoMergePoints

\* A run on two revisions that are not heads, on a history without merge
\* points, past its validation.
C33_Witness ==
    /\ pc = "Downgrading"
    /\ NoMergePoints
    /\ {heads.top_head, heads.base_head} \cap GetHeads(scriptDir) = {}

\* C34: every run comes to Done or Failed, and not by a chain walk that
\* goes round a cycle without end.
C34_RunTerminates ==
    <>(pc \in {"Done", "Failed"} /\ error.kind # "loop")

\* A run that is done after the downgrade, three file writes and four
\* upgrades.
C34_Witness ==
    /\ pc = "Done"
    /\ Len(plan.migrations_to_rebase) = 3
    /\ Len(calls) = 5

\* The parents the files record are those a run that never failed leaves:
\* the first of the given migrations on top_head, each later one on the one
\* before it, every other script on the parents it had at the start.
LinkageOfUnfailedRun(migrations, top_head) ==
    LET before == LoadScriptDirectory(files0)
    IN \A r \in DOMAIN before :
          IF \E i \in 1..Len(migrations) : migrations[i] = r
          THEN LET i == CHOOSE i \in 1..Len(migrations) : migrations[i] = r
               IN PersistedParent(r)
                     = <<IF i = 1 THEN top_head ELSE migrations[i - 1]>>
          ELSE PersistedParent(r) = before[r].down_revision

\* C25: when rebase is run again with the same arguments after a failure of
\* the rewriting phase that left files relinked, and the offending scripts
\* have been repaired, the second run, once it has loaded its
\* configuration, does not fail before the upgrades, and when it is done
\* the files record the linkage of a run that never failed.
C25_RerunRecovers ==
    (result.op = "rerun" /\ config # None)
    => /\ pc = "Failed" => error.phase \in {"Downgrading", "Applying"}
       /\ pc = "Done"
          => LinkageOfUnfailedRun(result.migrations_to_rebase, result.heads.top_head)

-----------------------------------------------------------------------------
(* Claims about the construction of the object, checked under             *)
(* SpecConstruct.                                                          *)

\* C19: constructing the object on a configuration file that exists leaves
\* config and the script directory loaded, so that the operations called
\* on it afterwards do not fail for want of them; constructing it on a file
\* that does not exist raises AlembicRebaseError.
C19_ConstructorInitializes ==
    /\ (result.op = "construct" /\ result.ini)
       => config # None /\ scriptDir = LoadScriptDirectory(files)
    /\ (result.op = "construct" /\ ~result.ini)
       => result.out = "AlembicRebaseError"
    /\ (result.op = "find_file" /\ result.ini) => result.out # AssertionError
    /\ (result.op = "chain_on_object" /\ result.ini) => result.out.kind # AssertionError

-----------------------------------------------------------------------------
(* Claims about the linkage check, checked under SpecIntegrity and, for    *)
(* the call rebase makes, under SpecIntegrityForPlan.                      *)

\* Every revision of the sequence has a script file that
\* _parse_migration_file reads.
AllParsed(migrations) ==
    \A k \in 1..Len(migrations) :
        /\ FindMigrationFile(scriptDir, migrations[k]) # None
        /\ ParseMigrationFile(files[FindMigrationFile(scriptDir, migrations[k])]).kind = "ok"

\* The parent _parse_migration_file reads from the file of a revision.
ParsedParent(revision) ==
    ParseMigrationFile(files[FindMigrationFile(scriptDir, revision)]).down_revision

\* Some element after the first records a parent other than the element
\* before it.
LinkBroken(migrations) ==
    \E k \in 2..Len(migrations) : ParsedParent(migrations[k]) # migrations[k - 1]

\* C13: for a sequence of revisions whose files are readable, the linkage
\* check returns False when some element after the first records a parent
\* other than the element before it, and True when none does.
C13_ChainLinkageCheck ==
    (result.op = "chain_integrity" /\ AllParsed(result.migrations))
    => /\ LinkBroken(result.migrations) => result.out = "false"
       /\ ~LinkBroken(result.migrations) => result.out = "true"

\* A call on three revisions of which only the last is off the chain.
C13_Witness ==
    /\ result.op = "chain_integrity"
    /\ Len(result.migrations) = 3
    /\ AllParsed(result.migrations)
    /\ ParsedParent(result.migrations[2]) = result.migrations[1]
    /\ ParsedParent(result.migrations[3]) # result.migrations[2]
    /\ result.out = "false"

\* C24: when rebase's call of the linkage check accepts a sequence whose
\* files are all readable, the parent read from the file of the first
\* element is last_top_migration, the parent planned for it.
C24_FirstParentCompared ==
    (/\ result.op = "chain_integrity_for_plan"
     /\ AllParsed(result.migrations)
     /\ result.out = "true")
    => ParsedParent(result.migrations[1]) = result.last_top_migration

=============================================================================
